---- MODULE Spec2Model ----
(***************************************************************************)
(* The Twilio channel handler of courier (src/msg.go): the two webhook     *)
(* handlers receiveMessage and receiveStatus, the request signature check  *)
(* (validateSignature, twCalculateSignature) and the outbound SendMsg.     *)
(*                                                                         *)
(* Go strings are sequences of bytes (ASCII codes), so that sorting,       *)
(* concatenation, splitting and formatting are computed as the code        *)
(* computes them.  A message text is kept run-length encoded, [ch, n]      *)
(* standing for the byte ch repeated n times.                              *)
(*                                                                         *)
(* Handler calls share no mutable state but handler.ignoreDeliveryReports, *)
(* which only Initialize writes; the model follows one call at a time and  *)
(* keeps the record of the latest call.                                    *)
(***************************************************************************)
EXTENDS Integers, Sequences, FiniteSets, TLC

VARIABLES
    ignoreDeliveryReports,  \* handler.ignoreDeliveryReports
    routes,                 \* routes added to the server by Initialize
    pc,                     \* "idle", "sending" (inside SendMsg's loop), "done" (the call returned)
    call,                   \* the latest call: its name and its inputs
    calls,                  \* backend operations invoked by the latest call, in order
    writes,                 \* HTTP responses written by the latest webhook call
    ret,                    \* what the latest call returned
    status,                 \* SendMsg's local status
    parts,                  \* SendMsg's local parts
    idx,                    \* SendMsg's loop index i
    http                    \* HTTP exchanges executed by the latest SendMsg, in order

vars == <<ignoreDeliveryReports, routes, pc, call, calls, writes, ret, status, parts, idx, http>>

-----------------------------------------------------------------------------
(* Bounds of the model *)

\* a message text has at most MaxParts segments
MaxParts == 2
\* the largest message identifier the backend has assigned
MaxMsgID == 1

-----------------------------------------------------------------------------
(* String literals *)

sMessageSID    == <<77, 101, 115, 115, 97, 103, 101, 83, 73, 68>>                 \* "MessageSID"
sAccountSID    == <<65, 99, 99, 111, 117, 110, 116, 83, 73, 68>>                  \* "AccountSID"
sFrom          == <<70, 114, 111, 109>>                                           \* "From"
sFromCountry   == <<70, 114, 111, 109, 67, 111, 117, 110, 116, 114, 121>>         \* "FromCountry"
sTo            == <<84, 111>>                                                     \* "To"
sBody          == <<66, 111, 100, 121>>                                           \* "Body"
sNumMedia      == <<78, 117, 109, 77, 101, 100, 105, 97>>                         \* "NumMedia"
sMessageStatus == <<77, 101, 115, 115, 97, 103, 101, 83, 116, 97, 116, 117, 115>> \* "MessageStatus"
sMediaUrl      == <<77, 101, 100, 105, 97, 85, 114, 108>>                         \* "MediaUrl"
sStatusCallback == <<83, 116, 97, 116, 117, 115, 67, 97, 108, 108, 98, 97, 99, 107>> \* "StatusCallback"
sMessagingServiceSid == <<77, 101, 115, 115, 97, 103, 105, 110, 103, 83, 101, 114, 118, 105, 99, 101, 83, 105, 100>> \* "MessagingServiceSid"
sId            == <<105, 100>>                                                    \* "id"
sQueued        == <<113, 117, 101, 117, 101, 100>>                                \* "queued"
sFailed        == <<102, 97, 105, 108, 101, 100>>                                 \* "failed"
sSent          == <<115, 101, 110, 116>>                                          \* "sent"
sDelivered     == <<100, 101, 108, 105, 118, 101, 114, 101, 100>>                 \* "delivered"
sUndelivered   == <<117, 110, 100, 101, 108, 105, 118, 101, 114, 101, 100>>       \* "undelivered"
sHttps         == <<104, 116, 116, 112, 115, 58, 47, 47>>                         \* "https://"
sWhatsApp      == <<119, 104, 97, 116, 115, 97, 112, 112>>                        \* "whatsapp"
sTel           == <<116, 101, 108>>                                               \* "tel"

\* single bytes
bColon == 58
bPlus  == 43
bAmp   == 38
bEq    == 61
bQuest == 63
bSlash == 47
bZero  == 48

-----------------------------------------------------------------------------
(* Go string operations *)

\* a < b on Go strings: byte-wise lexicographic order
RECURSIVE StrLess(_, _)
StrLess(a, b) ==
    IF b = <<>> THEN FALSE
    ELSE IF a = <<>> THEN TRUE
    ELSE IF a[1] # b[1] THEN a[1] < b[1]
    ELSE StrLess(Tail(a), Tail(b))

\* the concatenation of a sequence of strings
RECURSIVE Concat(_)
Concat(ss) == IF ss = <<>> THEN <<>> ELSE ss[1] \o Concat(Tail(ss))

\* the position of the first byte c in s, 0 when there is none
RECURSIVE IndexByteFrom(_, _, _)
IndexByteFrom(s, c, from) ==
    IF from > Len(s) THEN 0
    ELSE IF s[from] = c THEN from
    ELSE IndexByteFrom(s, c, from + 1)

IndexByte(s, c) == IndexByteFrom(s, c, 1)

\* strings.Split(s, sep) for a one-byte separator
RECURSIVE Split(_, _)
Split(s, c) ==
    LET p == IndexByte(s, c)
    IN  IF p = 0 THEN <<s>>
        ELSE <<SubSeq(s, 1, p - 1)>> \o Split(SubSeq(s, p + 1, Len(s)), c)

\* strings.TrimLeft(s, cutset) for a one-byte cutset
RECURSIVE TrimLeft(_, _)
TrimLeft(s, c) ==
    IF s # <<>> /\ s[1] = c THEN TrimLeft(Tail(s), c) ELSE s

\* strings.ToLower on ASCII
ToLower(s) == [k \in 1..Len(s) |-> IF s[k] >= 65 /\ s[k] <= 90 THEN s[k] + 32 ELSE s[k]]

\* the decimal digits of n >= 0
RECURSIVE Digits(_)
Digits(n) == IF n < 10 THEN <<bZero + n>> ELSE Digits(n \div 10) \o <<bZero + (n % 10)>>

\* strconv.FormatInt(n, 10), what %d prints
FormatInt(n) == IF n < 0 THEN <<45>> \o Digits(0 - n) ELSE Digits(n)

IsDigit(c) == c >= bZero /\ c <= bZero + 9

RECURSIVE DigitsValue(_, _)
DigitsValue(s, acc) ==
    IF s = <<>> THEN acc ELSE DigitsValue(Tail(s), acc * 10 + (s[1] - bZero))

\* strconv.ParseInt(s, 10, 64): [ok, n]; an optional sign, then at least one digit
ParseInt(s) ==
    LET signed == s # <<>> /\ s[1] \in {bPlus, 45}
        body   == IF signed THEN Tail(s) ELSE s
        good   == body # <<>> /\ \A k \in 1..Len(body) : IsDigit(body[k])
        n      == IF good THEN DigitsValue(body, 0) ELSE 0
    IN  [ok |-> good, n |-> IF signed /\ s[1] = 45 THEN 0 - n ELSE n]

-----------------------------------------------------------------------------
(* The request signature *)

\* sort.StringSlice.Sort: the keys in ascending order
RECURSIVE InsertSorted(_, _)
InsertSorted(k, sorted) ==
    IF sorted = <<>> THEN <<k>>
    ELSE IF StrLess(sorted[1], k) THEN <<sorted[1]>> \o InsertSorted(k, Tail(sorted))
    ELSE <<k>> \o sorted

RECURSIVE StringSliceSort(_)
StringSliceSort(keys) ==
    IF keys = <<>> THEN <<>> ELSE InsertSorted(keys[1], StringSliceSort(Tail(keys)))

\* the loop over the keys: each key, then that key's values in their order
RECURSIVE WriteParams(_, _, _)
WriteParams(buffer, keys, form) ==
    IF keys = <<>> THEN buffer
    ELSE WriteParams(buffer \o keys[1] \o Concat(form[keys[1]]), Tail(keys), form)

\* the size of a SHA-1 digest in bytes
Sha1Size == 20

\* hmac.New(sha1.New, key), Write(data), Sum(nil): a keyed digest of Sha1Size
\* bytes.  The digest function is a stand-in for HMAC-SHA1: a polynomial hash
\* of the key and then of every byte of the data in order, h <- 31 h + b + 1
\* modulo a prime, stretched to Sha1Size bytes.  It is computed by halving
\* the data, which gives the same value as the byte-by-byte loop.
RECURSIVE Pow31(_)
Pow31(n) ==
    IF n = 0 THEN 1
    ELSE LET half == Pow31(n \div 2)
             sq   == (half * half) % 32749
         IN  IF n % 2 = 0 THEN sq ELSE (sq * 31) % 32749

RECURSIVE Poly(_)
Poly(data) ==
    IF data = <<>> THEN 0
    ELSE IF Len(data) = 1 THEN (data[1] + 1) % 32749
    ELSE LET m == Len(data) \div 2
         IN  (Poly(SubSeq(data, 1, m)) * Pow31(Len(data) - m)
              + Poly(SubSeq(data, m + 1, Len(data)))) % 32749

Absorb(h, data) == (h * Pow31(Len(data)) + Poly(data)) % 32749

RECURSIVE Squeeze(_, _)
Squeeze(h, n) ==
    IF n = 0 THEN <<>>
    ELSE LET h2 == (h * 75 + 74) % 65537 IN <<h2 % 256>> \o Squeeze(h2, n - 1)

HmacSha1(key, data) == Squeeze(Absorb(Absorb(7, key), data), Sha1Size)

\* the base64 standard alphabet
B64Char(n) ==
    IF n < 26 THEN 65 + n
    ELSE IF n < 52 THEN 97 + (n - 26)
    ELSE IF n < 62 THEN bZero + (n - 52)
    ELSE IF n = 62 THEN bPlus ELSE bSlash

\* base64.StdEncoding.Encode, with "=" padding
RECURSIVE Base64StdEncode(_)
Base64StdEncode(b) ==
    IF b = <<>> THEN <<>>
    ELSE IF Len(b) = 1 THEN
        <<B64Char(b[1] \div 4), B64Char((b[1] % 4) * 16), bEq, bEq>>
    ELSE IF Len(b) = 2 THEN
        <<B64Char(b[1] \div 4), B64Char((b[1] % 4) * 16 + b[2] \div 16),
          B64Char((b[2] % 16) * 4), bEq>>
    ELSE
        <<B64Char(b[1] \div 4), B64Char((b[1] % 4) * 16 + b[2] \div 16),
          B64Char((b[2] % 16) * 4 + b[3] \div 64), B64Char(b[3] % 64)>>
        \o Base64StdEncode(SubSeq(b, 4, Len(b)))

\* twCalculateSignature with the keys appended in map iteration order and
\* never sorted
twCalculateSignatureUnsorted(url, form, authToken, order) ==
    Base64StdEncode(HmacSha1(authToken, WriteParams(url, order, form)))

\* twCalculateSignature(url, form, authToken).  order is the order in which
\* "for k := range form" yields the keys of the map, which Go leaves
\* unspecified.
twCalculateSignature(url, form, authToken, order) ==
    LET keys   == StringSliceSort(order)
        buffer == WriteParams(url, keys, form)
        hash   == HmacSha1(authToken, buffer)
    IN  Base64StdEncode(hash)

-----------------------------------------------------------------------------
(* Identifiers, status values, channels, the backend *)

\* NewMsgID(id): MsgID{null.NewInt(id, true)}
NewMsgID(id) == [Int64 |-> id, Valid |-> TRUE]

\* NilMsgID: MsgID{null.NewInt(0, false)}
NilMsgID == [Int64 |-> 0, Valid |-> FALSE]

\* courier.MsgStatusValue
MsgErrored   == "Errored"
MsgWired     == "Wired"
MsgSent      == "Sent"
MsgDelivered == "Delivered"
MsgFailed    == "Failed"

\* error code twilio returns when a contact has sent "stop"
errorStopped == 21610

maxMsgLength == 1600

\* a channel configuration value: a string, or a value that is no string
StringValue(s) == [kind |-> "string", v |-> s]
NumberValue(s) == [kind |-> "number", v |-> s]

\* channel.ConfigForKey(key, defaultValue)
ConfigForKey(channel, key, defaultValue) ==
    IF key \in DOMAIN channel.Config THEN channel.Config[key] ELSE defaultValue

\* channel.StringConfigForKey(key, defaultValue): the default unless a string is configured
StringConfigForKey(channel, key, defaultValue) ==
    LET val == ConfigForKey(channel, key, StringValue(defaultValue))
    IN  IF val.kind = "string" THEN val.v ELSE defaultValue

\* channel.IsScheme(scheme)
IsScheme(channel, scheme) == channel.Schemes = <<scheme>>

\* what a call returns for "no error"
NoError == "nil"
\* backend.NewMsgStatusForID(channel, id, status)
NewMsgStatusForID(channel, id, s) ==
    [ChannelUUID |-> channel.UUID, ID |-> id, ExternalID |-> <<>>, Status |-> s, Logs |-> <<>>]

\* backend.NewMsgStatusForExternalID(channel, externalID, status)
NewMsgStatusForExternalID(channel, externalID, s) ==
    [ChannelUUID |-> channel.UUID, ID |-> NilMsgID, ExternalID |-> externalID, Status |-> s, Logs |-> <<>>]

\* backend.NewIncomingMsg(channel, urn, text)
NewIncomingMsg(channel, urn, text) ==
    [ChannelUUID |-> channel.UUID, URN |-> urn, Text |-> text, ExternalID |-> <<>>, Attachments |-> <<>>]

\* one backend operation, as the backend sees it
BackendCall(fn, arg) == [fn |-> fn, arg |-> arg]

\* what a webhook handler did: the backend operations it invoked, the responses
\* it wrote, the events and the error it returned
Outcome(cs, ws, events, err) == [calls |-> cs, writes |-> ws, events |-> events, err |-> err]

\* a handler that died of a run-time panic
Panicked(cs) == [calls |-> cs, writes |-> <<>>, events |-> <<>>, err |-> "panic"]

\* handlers.WriteAndLogRequestError: a 400 response carrying the error
WriteAndLogRequestError(err) == [code |-> 400, kind |-> "error", details |-> err]

\* handler.WriteRequestIgnored: a 200 TwiML response carrying the details in a comment
WriteRequestIgnored(details) == [code |-> 200, kind |-> "ignored", details |-> details]

\* handlers.WriteAndLogRequestIgnored(ctx, h, channel, w, r, details): the request
\* is logged as ignored and answered by the handler's own WriteRequestIgnored
WriteAndLogRequestIgnored(details) == WriteRequestIgnored(details)

\* handler.WriteMsgSuccessResponse: a 200 TwiML response
WriteMsgSuccessResponse == [code |-> 200, kind |-> "msgs", details |-> ""]

\* the base handler's WriteStatusSuccessResponse: a 200 response
WriteStatusSuccessResponse == [code |-> 200, kind |-> "status", details |-> ""]

-----------------------------------------------------------------------------
(* Requests *)

\* r.Header.Get(name): the header's value, "" when the request has none
HeaderGet(r, name) == r.Header[name]

signatureHeader     == "X-Twilio-Signature"
forwardedPathHeader == "X-Forwarded-Path"

\* r.URL.RequestURI(): the path, and "?" and the query when there is one
RequestURI(url) ==
    IF url.RawQuery = <<>> THEN url.Path ELSE url.Path \o <<bQuest>> \o url.RawQuery

\* the value of the first "key=value" pair of a query with that key, "" when none
RECURSIVE PairsGet(_, _)
PairsGet(pairs, key) ==
    IF pairs = <<>> THEN <<>>
    ELSE LET p == IndexByte(pairs[1], bEq)
             k == IF p = 0 THEN pairs[1] ELSE SubSeq(pairs[1], 1, p - 1)
             v == IF p = 0 THEN <<>> ELSE SubSeq(pairs[1], p + 1, Len(pairs[1]))
         IN  IF k = key THEN v ELSE PairsGet(Tail(pairs), key)

\* r.URL.Query().Get(key)
QueryGet(url, key) ==
    IF url.RawQuery = <<>> THEN <<>> ELSE PairsGet(Split(url.RawQuery, bAmp), key)

\* url.Values.Get(key): the first value of the key, "" when there is none
FormGet(form, key) ==
    IF key \in DOMAIN form /\ form[key] # <<>> THEN form[key][1] ELSE <<>>

\* the URL validateSignature signs: https://<host><path>, the path being the
\* forwarded-path header when the request has one
SignedURL(r) ==
    LET path      == RequestURI(r.URL)
        proxyPath == HeaderGet(r, forwardedPathHeader)
    IN  sHttps \o r.Host \o (IF proxyPath # <<>> THEN proxyPath ELSE path)

\* validateSignature without the comparison of the two signatures
validateSignatureNoCompare(channel, r, order) ==
    LET actual   == HeaderGet(r, signatureHeader)
        confAuth == ConfigForKey(channel, "auth_token", StringValue(<<>>))
    IN  IF actual = <<>> THEN "missing request signature"
        ELSE IF r.parseFormErr THEN "form does not parse"
        ELSE IF confAuth.kind # "string" \/ confAuth.v = <<>>
             THEN "invalid or missing auth token in config"
        ELSE NoError

\* handler.validateSignature(channel, r): the error it returns, NoError for nil
validateSignature(channel, r, order) ==
    LET actual    == HeaderGet(r, signatureHeader)
        confAuth  == ConfigForKey(channel, "auth_token", StringValue(<<>>))
        isStr     == confAuth.kind = "string"
        authToken == confAuth.v
        expected  == twCalculateSignature(SignedURL(r), r.PostForm, authToken, order)
    IN  IF actual = <<>> THEN "missing request signature"
        ELSE IF r.parseFormErr THEN "form does not parse"
        ELSE IF ~isStr \/ authToken = <<>> THEN "invalid or missing auth token in config"
        ELSE IF expected # actual THEN "invalid request signature"
        ELSE NoError

-----------------------------------------------------------------------------
(* receiveStatus *)

statusMappingSentAsDelivered ==
    (sQueued :> MsgSent) @@ (sFailed :> MsgFailed) @@ (sSent :> MsgDelivered)
    @@ (sDelivered :> MsgDelivered) @@ (sUndelivered :> MsgFailed)

statusMapping ==
    (sQueued :> MsgSent) @@ (sFailed :> MsgFailed) @@ (sSent :> MsgSent)
    @@ (sDelivered :> MsgDelivered) @@ (sUndelivered :> MsgFailed)

\* handlers.DecodeAndValidateForm on a statusForm: both fields are required
DecodeStatusForm(r) ==
    LET form == [MessageSID    |-> FormGet(r.PostForm, sMessageSID),
                 MessageStatus |-> FormGet(r.PostForm, sMessageStatus)]
    IN  [form |-> form, ok |-> form.MessageSID # <<>> /\ form.MessageStatus # <<>>]

\* handlers.WriteMsgStatusAndResponse: the status is written to the backend,
\* and on success returned as the event and acknowledged
WriteMsgStatusAndResponse(cs, st, writeErr) ==
    LET written == Append(cs, BackendCall("WriteMsgStatus", st))
    IN  IF writeErr # NoError THEN Outcome(written, <<>>, <<>>, writeErr)
        ELSE Outcome(written, <<WriteStatusSuccessResponse>>, <<st>>, NoError)

\* receiveStatus with every report suppressed when delivery reports are ignored
receiveStatusIgnoringEveryReport(ignoring, channel, r, order, writeErr) ==
    LET decoded == DecodeStatusForm(r)
        form    == decoded.form
        found   == form.MessageStatus \in DOMAIN statusMapping
        msgStatus == statusMapping[form.MessageStatus]
        idString  == QueryGet(r.URL, sId)
        msgID     == ParseInt(idString)
        byID      == idString # <<>> /\ msgID.ok
        st        == IF byID THEN NewMsgStatusForID(channel, NewMsgID(msgID.n), msgStatus)
                     ELSE NewMsgStatusForExternalID(channel, form.MessageSID, msgStatus)
        built     == IF byID THEN <<BackendCall("NewMsgStatusForID", st)>>
                     ELSE <<BackendCall("NewMsgStatusForExternalID", st)>>
    IN  IF ~decoded.ok
        THEN Outcome(<<>>, <<WriteAndLogRequestIgnored("no msg status, ignoring")>>, <<>>, NoError)
        ELSE IF ~found
        THEN Outcome(<<>>, <<WriteAndLogRequestError("unknown status")>>, <<>>, NoError)
        ELSE IF ignoring
        THEN Outcome(<<>>, <<WriteAndLogRequestIgnored("ignoring non error delivery report")>>, <<>>, NoError)
        ELSE WriteMsgStatusAndResponse(built, st, writeErr)

\* receiveStatus with the id of the callback URL never used
receiveStatusByExternalIDOnly(ignoring, channel, r, order, writeErr) ==
    LET decoded == DecodeStatusForm(r)
        form    == decoded.form
        found   == form.MessageStatus \in DOMAIN statusMapping
        msgStatus == statusMapping[form.MessageStatus]
        idString  == QueryGet(r.URL, sId)
        msgID     == ParseInt(idString)
        byID      == FALSE
        st        == IF byID THEN NewMsgStatusForID(channel, NewMsgID(msgID.n), msgStatus)
                     ELSE NewMsgStatusForExternalID(channel, form.MessageSID, msgStatus)
        built     == IF byID THEN <<BackendCall("NewMsgStatusForID", st)>>
                     ELSE <<BackendCall("NewMsgStatusForExternalID", st)>>
    IN  IF ~decoded.ok
        THEN Outcome(<<>>, <<WriteAndLogRequestIgnored("no msg status, ignoring")>>, <<>>, NoError)
        ELSE IF ~found
        THEN Outcome(<<>>, <<WriteAndLogRequestError("unknown status")>>, <<>>, NoError)
        ELSE IF ignoring /\ msgStatus # MsgFailed
        THEN Outcome(<<>>, <<WriteAndLogRequestIgnored("ignoring non error delivery report")>>, <<>>, NoError)
        ELSE WriteMsgStatusAndResponse(built, st, writeErr)

\* receiveStatus answering a form without its required fields with an error
receiveStatusRejectingMissingFields(ignoring, channel, r, order, writeErr) ==
    LET decoded == DecodeStatusForm(r)
        form    == decoded.form
        found   == form.MessageStatus \in DOMAIN statusMapping
        msgStatus == statusMapping[form.MessageStatus]
        idString  == QueryGet(r.URL, sId)
        msgID     == ParseInt(idString)
        byID      == idString # <<>> /\ msgID.ok
        st        == IF byID THEN NewMsgStatusForID(channel, NewMsgID(msgID.n), msgStatus)
                     ELSE NewMsgStatusForExternalID(channel, form.MessageSID, msgStatus)
        built     == IF byID THEN <<BackendCall("NewMsgStatusForID", st)>>
                     ELSE <<BackendCall("NewMsgStatusForExternalID", st)>>
    IN  IF ~decoded.ok
        THEN Outcome(<<>>, <<WriteAndLogRequestError("invalid form")>>, <<>>, NoError)
        ELSE IF ~found
        THEN Outcome(<<>>, <<WriteAndLogRequestError("unknown status")>>, <<>>, NoError)
        ELSE IF ignoring /\ msgStatus # MsgFailed
        THEN Outcome(<<>>, <<WriteAndLogRequestIgnored("ignoring non error delivery report")>>, <<>>, NoError)
        ELSE WriteMsgStatusAndResponse(built, st, writeErr)

\* receiveStatus from the decoding of the form on: lines 271-304
receiveStatusAuthenticated(ignoring, channel, r, order, writeErr) ==
    LET decoded == DecodeStatusForm(r)
        form    == decoded.form
        found   == form.MessageStatus \in DOMAIN statusMapping
        msgStatus == statusMapping[form.MessageStatus]
        idString  == QueryGet(r.URL, sId)
        msgID     == ParseInt(idString)
        byID      == idString # <<>> /\ msgID.ok
        st        == IF byID THEN NewMsgStatusForID(channel, NewMsgID(msgID.n), msgStatus)
                     ELSE NewMsgStatusForExternalID(channel, form.MessageSID, msgStatus)
        built     == IF byID THEN <<BackendCall("NewMsgStatusForID", st)>>
                     ELSE <<BackendCall("NewMsgStatusForExternalID", st)>>
    IN  IF ~decoded.ok
        THEN Outcome(<<>>, <<WriteAndLogRequestIgnored("no msg status, ignoring")>>, <<>>, NoError)
        ELSE IF ~found
        THEN Outcome(<<>>, <<WriteAndLogRequestError("unknown status")>>, <<>>, NoError)
        ELSE IF ignoring /\ msgStatus # MsgFailed
        THEN Outcome(<<>>, <<WriteAndLogRequestIgnored("ignoring non error delivery report")>>, <<>>, NoError)
        ELSE WriteMsgStatusAndResponse(built, st, writeErr)

\* receiveStatus with the signature never validated
receiveStatusUnauthenticated(ignoring, channel, r, order, writeErr) ==
    receiveStatusAuthenticated(ignoring, channel, r, order, writeErr)

\* handler.receiveStatus(ctx, channel, w, r)
receiveStatus(ignoring, channel, r, order, writeErr) ==
    LET err == validateSignature(channel, r, order)
    IN  IF err # NoError THEN Outcome(<<>>, <<>>, <<>>, err)
        ELSE receiveStatusAuthenticated(ignoring, channel, r, order, writeErr)

-----------------------------------------------------------------------------
(* receiveMessage *)

AllDigits(s) == s # <<>> /\ \A k \in 1..Len(s) : IsDigit(s[k])

\* urns.NewWhatsAppURN(identifier): [urn, ok]; a WhatsApp identifier is all digits
NewWhatsAppURN(identifier) ==
    [urn |-> [scheme |-> sWhatsApp, path |-> identifier], ok |-> AllDigits(identifier)]

\* urns.NewTelURNForCountry(number, country): [urn, ok]; a telephone number is
\* digits after an optional "+"
NewTelURNForCountry(number, country) ==
    [urn |-> [scheme |-> sTel, path |-> number], ok |-> AllDigits(TrimLeft(number, bPlus))]

\* handlers.DecodePossibleBase64: a body of fewer than 60 bytes is returned as it is
DecodePossibleBase64(body) == body

\* handlers.DecodeAndValidateForm on a moForm: NumMedia must be an integer when
\* present, and MessageSID, AccountSID, From and To are required
DecodeMoForm(r) ==
    LET numMedia == FormGet(r.PostForm, sNumMedia)
        parsed   == ParseInt(numMedia)
        form == [MessageSID  |-> FormGet(r.PostForm, sMessageSID),
                 AccountSID  |-> FormGet(r.PostForm, sAccountSID),
                 From        |-> FormGet(r.PostForm, sFrom),
                 FromCountry |-> FormGet(r.PostForm, sFromCountry),
                 To          |-> FormGet(r.PostForm, sTo),
                 Body        |-> FormGet(r.PostForm, sBody),
                 NumMedia    |-> IF numMedia = <<>> THEN 0 ELSE parsed.n]
    IN  [form |-> form,
         ok   |-> /\ (numMedia = <<>> \/ parsed.ok)
                  /\ form.MessageSID # <<>> /\ form.AccountSID # <<>>
                  /\ form.From # <<>> /\ form.To # <<>>]

\* msg.WithAttachment(url): the message is a shared object, the attachment is
\* appended to it in place
WithAttachment(msg, url) == [msg EXCEPT !.Attachments = Append(@, url)]

\* the loop over the attached media with the keys counted from MediaUrl1
RECURSIVE WithAttachmentsFromOne(_, _, _, _)
WithAttachmentsFromOne(msg, r, i, numMedia) ==
    IF i >= numMedia THEN msg
    ELSE WithAttachmentsFromOne(
            WithAttachment(msg, FormGet(r.PostForm, sMediaUrl \o FormatInt(i + 1))),
            r, i + 1, numMedia)

\* the loop over the attached media: msg.WithAttachment(MediaUrl<i>) for i < NumMedia
RECURSIVE WithAttachments(_, _, _, _)
WithAttachments(msg, r, i, numMedia) ==
    IF i >= numMedia THEN msg
    ELSE WithAttachments(
            WithAttachment(msg, FormGet(r.PostForm, sMediaUrl \o FormatInt(i))),
            r, i + 1, numMedia)

\* handlers.WriteMsgsAndResponse for the one message: it is written to the
\* backend, and on success returned as the event and acknowledged
WriteMsgsAndResponse(cs, msg, writeErr) ==
    LET written == Append(cs, BackendCall("WriteMsg", msg))
    IN  IF writeErr # NoError THEN Outcome(written, <<>>, <<>>, writeErr)
        ELSE Outcome(written, <<WriteMsgSuccessResponse>>, <<msg>>, NoError)

\* receiveMessage with the error of the URN never looked at
receiveMessageIgnoringURNError(channel, r, order, writeErr) ==
    LET decoded == DecodeMoForm(r)
        form    == decoded.form
        isWA    == IsScheme(channel, sWhatsApp)
        fromParts == Split(form.From, bColon)
        made    == IF isWA THEN NewWhatsAppURN(TrimLeft(fromParts[2], bPlus))
                   ELSE NewTelURNForCountry(form.From, form.FromCountry)
        body    == IF form.Body # <<>> THEN DecodePossibleBase64(form.Body) ELSE form.Body
        msg0    == [NewIncomingMsg(channel, made.urn, body) EXCEPT !.ExternalID = form.MessageSID]
        msg     == WithAttachments(msg0, r, 0, form.NumMedia)
    IN  IF ~decoded.ok
        THEN Outcome(<<>>, <<WriteAndLogRequestError("invalid form")>>, <<>>, NoError)
        ELSE IF isWA /\ Len(fromParts) < 2
        THEN Panicked(<<>>)
        ELSE WriteMsgsAndResponse(<<BackendCall("NewIncomingMsg", msg0)>>, msg, writeErr)

\* receiveMessage from the decoding of the form on: lines 225-261
receiveMessageAuthenticated(channel, r, order, writeErr) ==
    LET decoded == DecodeMoForm(r)
        form    == decoded.form
        isWA    == IsScheme(channel, sWhatsApp)
        fromParts == Split(form.From, bColon)
        made    == IF isWA THEN NewWhatsAppURN(TrimLeft(fromParts[2], bPlus))
                   ELSE NewTelURNForCountry(form.From, form.FromCountry)
        body    == IF form.Body # <<>> THEN DecodePossibleBase64(form.Body) ELSE form.Body
        msg0    == [NewIncomingMsg(channel, made.urn, body) EXCEPT !.ExternalID = form.MessageSID]
        msg     == WithAttachments(msg0, r, 0, form.NumMedia)
    IN  IF ~decoded.ok
        THEN Outcome(<<>>, <<WriteAndLogRequestError("invalid form")>>, <<>>, NoError)
        ELSE IF isWA /\ Len(fromParts) < 2
        THEN Panicked(<<>>)
        ELSE IF ~made.ok
        THEN Outcome(<<>>, <<WriteAndLogRequestError("invalid urn")>>, <<>>, NoError)
        ELSE WriteMsgsAndResponse(<<BackendCall("NewIncomingMsg", msg0)>>, msg, writeErr)

\* handler.receiveMessage(ctx, channel, w, r)
receiveMessage(channel, r, order, writeErr) ==
    LET err == validateSignature(channel, r, order)
    IN  IF err # NoError THEN Outcome(<<>>, <<WriteAndLogRequestError(err)>>, <<>>, NoError)
        ELSE receiveMessageAuthenticated(channel, r, order, writeErr)

-----------------------------------------------------------------------------
(* SendMsg *)

\* the default send URL of the package
sendURL == <<104, 116, 116, 112, 115, 58, 47, 47, 97, 112, 105, 46, 116, 119, 105, 108, 105, 111, 46,
             99, 111, 109, 47, 50, 48, 49, 48, 45, 48, 52, 45, 48, 49, 47, 65, 99, 99, 111, 117, 110,
             116, 115>>                       \* "https://api.twilio.com/2010-04-01/Accounts"
sMessagesJson == <<77, 101, 115, 115, 97, 103, 101, 115, 46, 106, 115, 111, 110>>  \* "Messages.json"
sCallbackPath == <<47, 99, 47>>                                                       \* "/c/"
sStatusId     == <<47, 115, 116, 97, 116, 117, 115, 63, 105, 100, 61>>                \* "/status?id="
sActionCallback == <<38, 97, 99, 116, 105, 111, 110, 61, 99, 97, 108, 108, 98, 97, 99, 107>> \* "&action=callback"

\* h.Server().Config().Domain
serverDomain == <<100, 46, 105, 111>>   \* "d.io"

\* a nil courier.MsgStatus
NilStatus == [ChannelUUID |-> <<>>, ID |-> NilMsgID, ExternalID |-> <<>>, Status |-> "nil", Logs |-> <<>>]

\* what a call returns; the fields a call does not return keep their zero value
Return(st, events, err, sig) == [status |-> st, events |-> events, err |-> err, sig |-> sig]

\* channel.CallbackDomain(fallbackDomain)
CallbackDomain(channel, fallbackDomain) ==
    StringConfigForKey(channel, "callback_domain", fallbackDomain)

\* the callback URL SendMsg builds: line 311
CallbackURL(msg) ==
    sHttps \o CallbackDomain(msg.Channel, serverDomain) \o sCallbackPath
    \o ToLower(msg.Channel.ChannelType) \o <<bSlash>> \o msg.Channel.UUID
    \o sStatusId \o FormatInt(msg.ID.Int64) \o sActionCallback

\* the request the provider makes to a URL "https://<host><path>?<query>":
\* the Host and the URL of the request the server hands to the handler
RequestTo(rawurl) ==
    LET rest  == SubSeq(rawurl, Len(sHttps) + 1, Len(rawurl))
        slash == IndexByte(rest, bSlash)
        host  == IF slash = 0 THEN rest ELSE SubSeq(rest, 1, slash - 1)
        uri   == IF slash = 0 THEN <<bSlash>> ELSE SubSeq(rest, slash, Len(rest))
        quest == IndexByte(uri, bQuest)
    IN  [Host |-> host,
         URL  |-> [Path     |-> IF quest = 0 THEN uri ELSE SubSeq(uri, 1, quest - 1),
                   RawQuery |-> IF quest = 0 THEN <<>> ELSE SubSeq(uri, quest + 1, Len(uri))]]

\* handlers.SplitMsg(text, max): the text when it fits, else the fewest ordered
\* segments of at most max bytes
RECURSIVE SplitMsg(_, _)
SplitMsg(text, max) ==
    IF text.n <= max THEN <<text>>
    ELSE <<[text EXCEPT !.n = max]>> \o SplitMsg([text EXCEPT !.n = @ - max], max)

\* handlers.SplitAttachment(attachment): "<content type>:<url>" split at the first ":"
SplitAttachment(attachment) ==
    LET p == IndexByte(attachment, bColon)
    IN  IF p = 0 THEN [type |-> <<>>, url |-> attachment]
        ELSE [type |-> SubSeq(attachment, 1, p - 1),
              url  |-> SubSeq(attachment, p + 1, Len(attachment))]

\* utils.AddURLPath(baseSendURL, accountSID, "Messages.json"): [url, ok]; a base
\* that starts with ":" has no protocol scheme and does not parse
AddURLPath(base, accountSID) ==
    [url |-> base \o <<bSlash>> \o accountSID \o <<bSlash>> \o sMessagesJson,
     ok  |-> ~(base # <<>> /\ base[1] = bColon)]

\* SendMsg up to the loop with the account SID never checked
SendMsgBeginNoSidCheck(msg) ==
    LET accountToken == StringConfigForKey(msg.Channel, "auth_token", <<>>)
    IN  IF accountToken = <<>>
        THEN [err |-> "missing account auth token for twilio channel",
              status |-> NilStatus, parts |-> <<>>]
        ELSE [err |-> NoError,
              status |-> NewMsgStatusForID(msg.Channel, msg.ID, MsgErrored),
              parts  |-> SplitMsg(msg.Text, maxMsgLength)]

\* SendMsg up to the loop, lines 308-326: the error it returns, or the status
\* it creates and the parts it is about to send
SendMsgBegin(msg) ==
    LET accountSID   == StringConfigForKey(msg.Channel, "account_sid", <<>>)
        accountToken == StringConfigForKey(msg.Channel, "auth_token", <<>>)
    IN  IF accountSID = <<>>
        THEN [err |-> "missing account sid for twilio channel",
              status |-> NilStatus, parts |-> <<>>]
        ELSE IF accountToken = <<>>
        THEN [err |-> "missing account auth token for twilio channel",
              status |-> NilStatus, parts |-> <<>>]
        ELSE [err |-> NoError,
              status |-> NewMsgStatusForID(msg.Channel, msg.ID, MsgErrored),
              parts  |-> SplitMsg(msg.Text, maxMsgLength)]

\* the request form with the media URL added to every part
BuildFormMediaOnEveryPart(msg, part, i) ==
    LET channel    == msg.Channel
        serviceSID == StringConfigForKey(channel, "messaging_service_sid", <<>>)
        form0 == (sTo :> <<msg.URNPath>>) @@ (sBody :> <<part>>)
                 @@ (sStatusCallback :> <<CallbackURL(msg)>>)
        form1 == IF Len(msg.Attachments) > 0
                 THEN (sMediaUrl :> <<SplitAttachment(msg.Attachments[1]).url>>) @@ form0
                 ELSE form0
        form2 == IF serviceSID # <<>>
                 THEN (sMessagingServiceSid :> <<serviceSID>>) @@ form1
                 ELSE (sFrom :> <<channel.Address>>) @@ form1
    IN  IF ~IsScheme(channel, sWhatsApp) THEN [form |-> form2, panic |-> FALSE]
        ELSE IF sFrom \notin DOMAIN form2 THEN [form |-> form2, panic |-> TRUE]
        ELSE [form |-> [form2 EXCEPT
                            ![sTo]   = <<sWhatsApp \o <<bColon, bPlus>> \o form2[sTo][1]>>,
                            ![sFrom] = <<sWhatsApp \o <<bColon>> \o form2[sFrom][1]>>],
              panic |-> FALSE]

\* the request form of part i (from 0), lines 329-353.  On a WhatsApp channel
\* with a messaging service SID the form has no "From" and form["From"][0]
\* panics.
BuildForm(msg, part, i) ==
    LET channel    == msg.Channel
        serviceSID == StringConfigForKey(channel, "messaging_service_sid", <<>>)
        form0 == (sTo :> <<msg.URNPath>>) @@ (sBody :> <<part>>)
                 @@ (sStatusCallback :> <<CallbackURL(msg)>>)
        form1 == IF Len(msg.Attachments) > 0 /\ i = 0
                 THEN (sMediaUrl :> <<SplitAttachment(msg.Attachments[1]).url>>) @@ form0
                 ELSE form0
        form2 == IF serviceSID # <<>>
                 THEN (sMessagingServiceSid :> <<serviceSID>>) @@ form1
                 ELSE (sFrom :> <<channel.Address>>) @@ form1
    IN  IF ~IsScheme(channel, sWhatsApp) THEN [form |-> form2, panic |-> FALSE]
        ELSE IF sFrom \notin DOMAIN form2 THEN [form |-> form2, panic |-> TRUE]
        ELSE [form |-> [form2 EXCEPT
                            ![sTo]   = <<sWhatsApp \o <<bColon, bPlus>> \o form2[sTo][1]>>,
                            ![sFrom] = <<sWhatsApp \o <<bColon>> \o form2[sFrom][1]>>],
              panic |-> FALSE]

\* courier.NewChannelLogFromRR("Message Sent", ...).WithError("Message Send Error", err)
NewChannelLog(resp) ==
    IF resp.err THEN [Description |-> "Message Send Error", Error |-> "request failed"]
    ELSE [Description |-> "Message Sent", Error |-> ""]

\* log.WithError("Message Send Error", err) on the log the status already holds
WithLogError(st, err) ==
    [st EXCEPT !.Logs[Len(st.Logs)] = [Description |-> "Message Send Error", Error |-> err]]

\* what the loop body decided: the status, whether StopMsgContact was called,
\* and whether SendMsg returns now or goes on to the next part
Decision(st, stopped, returns) == [status |-> st, stopped |-> stopped, returns |-> returns]

\* the classification with the loop going on after a failed part
ClassifyNoReturn(st, i, resp) ==
    LET logged == [st EXCEPT !.Logs = Append(@, NewChannelLog(resp))]
    IN  IF resp.err \/ ~resp.hasSid THEN Decision(logged, FALSE, FALSE)
        ELSE Decision([logged EXCEPT !.Status = MsgWired,
                                     !.ExternalID = IF i = 0 THEN resp.sid ELSE @], FALSE, FALSE)

\* the classification with every part's sid saved as the external id
ClassifyLastExternalID(st, i, resp) ==
    LET logged == [st EXCEPT !.Logs = Append(@, NewChannelLog(resp))]
    IN  IF resp.err /\ resp.hasBody /\ resp.code # 0
        THEN IF resp.code = errorStopped
             THEN Decision(WithLogError([logged EXCEPT !.Status = MsgFailed], "received error code"),
                           TRUE, TRUE)
             ELSE Decision(WithLogError(logged, "received error code"), FALSE, TRUE)
        ELSE IF resp.err THEN Decision(logged, FALSE, TRUE)
        ELSE IF ~resp.hasSid
        THEN Decision(WithLogError(logged, "unable to get sid from body"), FALSE, TRUE)
        ELSE Decision([logged EXCEPT !.Status = MsgWired, !.ExternalID = resp.sid], FALSE, FALSE)

\* the classification with the contact stopped on every provider error code
ClassifyStopOnAnyCode(st, i, resp) ==
    LET logged == [st EXCEPT !.Logs = Append(@, NewChannelLog(resp))]
    IN  IF resp.err /\ resp.hasBody /\ resp.code # 0
        THEN Decision(WithLogError([logged EXCEPT !.Status = MsgFailed], "received error code"),
                      TRUE, TRUE)
        ELSE IF resp.err THEN Decision(logged, FALSE, TRUE)
        ELSE IF ~resp.hasSid
        THEN Decision(WithLogError(logged, "unable to get sid from body"), FALSE, TRUE)
        ELSE Decision([logged EXCEPT !.Status = MsgWired,
                                     !.ExternalID = IF i = 0 THEN resp.sid ELSE @], FALSE, FALSE)

\* the classification with the log added only after the check of the error
ClassifyLogAfterErrorCheck(st, i, resp) ==
    LET logged == [st EXCEPT !.Logs = Append(@, NewChannelLog(resp))]
    IN  IF resp.err /\ resp.hasBody /\ resp.code # 0
        THEN IF resp.code = errorStopped
             THEN Decision([st EXCEPT !.Status = MsgFailed], TRUE, TRUE)
             ELSE Decision(st, FALSE, TRUE)
        ELSE IF resp.err THEN Decision(st, FALSE, TRUE)
        ELSE IF ~resp.hasSid
        THEN Decision(WithLogError(logged, "unable to get sid from body"), FALSE, TRUE)
        ELSE Decision([logged EXCEPT !.Status = MsgWired,
                                     !.ExternalID = IF i = 0 THEN resp.sid ELSE @], FALSE, FALSE)

\* the loop body after the request of part i (from 0) was executed, lines
\* 367-401: the log is added, then the response is classified
Classify(st, i, resp) ==
    LET logged == [st EXCEPT !.Logs = Append(@, NewChannelLog(resp))]
    IN  IF resp.err /\ resp.hasBody /\ resp.code # 0
        THEN IF resp.code = errorStopped
             THEN Decision(WithLogError([logged EXCEPT !.Status = MsgFailed], "received error code"),
                           TRUE, TRUE)
             ELSE Decision(WithLogError(logged, "received error code"), FALSE, TRUE)
        ELSE IF resp.err THEN Decision(logged, FALSE, TRUE)
        ELSE IF ~resp.hasSid
        THEN Decision(WithLogError(logged, "unable to get sid from body"), FALSE, TRUE)
        ELSE Decision([logged EXCEPT !.Status = MsgWired,
                                     !.ExternalID = IF i = 0 THEN resp.sid ELSE @], FALSE, FALSE)

-----------------------------------------------------------------------------
(* The inputs of the model *)

sTok  == <<116, 111, 107>>      \* "tok", the auth token of the channels
sKey  == <<107, 101, 121>>      \* "key", another secret
sAC1  == <<65, 67, 49>>         \* "AC1"
sMG1  == <<77, 71, 49>>         \* "MG1"
sSM1  == <<83, 77, 49>>         \* "SM1"
sSM2  == <<83, 77, 50>>         \* "SM2"
sHost == serverDomain           \* the host the webhooks are served on
sReceivePath == <<47, 114>>     \* "/r"
sStatusPath  == <<47, 115>>     \* "/s"
sProxyPath   == <<47, 112>>     \* "/p"
sPhone       == <<43, 49, 50>>  \* "+12"
sWhatsAppFrom == <<119, 104, 97, 116, 115, 97, 112, 112, 58, 43, 49, 50>>  \* "whatsapp:+12"
sWhatsAppID  == <<49, 50>>      \* "12"
sX           == <<120>>         \* "x"
sHi          == <<104, 105>>    \* "hi"
sUrlA        == <<104, 116, 116, 112, 115, 58, 47, 47, 97>>   \* "https://a"
sUrlB        == <<104, 116, 116, 112, 115, 58, 47, 47, 98>>   \* "https://b"
sAttachmentA == <<105, 109, 97, 103, 101, 47, 106, 112, 101, 103, 58>> \o sUrlA  \* "image/jpeg:https://a"
sAttachmentB == <<105, 109, 97, 103, 101, 47, 106, 112, 101, 103, 58>> \o sUrlB  \* "image/jpeg:https://b"

\* a configuration key that is not set
Absent == [kind |-> "absent", v |-> <<>>]

\* a string-keyed map from the (key, value) pairs whose value is present
MapOf(pairs) ==
    LET present == {p \in pairs : p[2] # Absent}
    IN  [k \in {p[1] : p \in present} |-> (CHOOSE p \in present : p[1] = k)[2]]

Channel(scheme, accountSID, authToken, serviceSID, url) ==
    [UUID        |-> <<117, 49>>,   \* "u1"
     ChannelType |-> <<84>>,        \* "T"
     Address     |-> <<43, 49>>,    \* "+1"
     Schemes     |-> <<scheme>>,
     Config      |-> MapOf({<<"account_sid", accountSID>>, <<"auth_token", authToken>>,
                            <<"messaging_service_sid", serviceSID>>, <<"send_url", url>>})]

\* the channels: every combination of missing credentials; with both
\* credentials every scheme and routing, and a send URL that does not parse
Channels ==
    {Channel(sTel, sid, tok, Absent, Absent) :
        sid \in {Absent, StringValue(sAC1)},
        tok \in {Absent, NumberValue(<<49>>), StringValue(sTok)}}
    \cup
    {Channel(scheme, StringValue(sAC1), StringValue(sTok), svc, Absent) :
        scheme \in {sTel, sWhatsApp}, svc \in {Absent, StringValue(sMG1)}}
    \cup
    {Channel(sTel, StringValue(sAC1), StringValue(sTok), Absent, StringValue(<<bColon>>))}

\* the elements of a finite set in some order
RECURSIVE SetToSeq(_)
SetToSeq(S) ==
    IF S = {} THEN <<>> ELSE LET x == CHOOSE y \in S : TRUE IN <<x>> \o SetToSeq(S \ {x})

Reverse(s) == [k \in 1..Len(s) |-> s[Len(s) + 1 - k]]

\* every order of the elements of a finite set
AllOrders(S) ==
    {p \in [1..Cardinality(S) -> S] : \A a, b \in 1..Cardinality(S) : a # b => p[a] # p[b]}

\* two of the orders in which ranging over the form may yield its keys
IterationOrders(form) == {SetToSeq(DOMAIN form), Reverse(SetToSeq(DOMAIN form))}

\* marks a key that is not posted, a field that a body does not have
NoValues == <<<<-1>>>>
NoString == <<-1>>

\* a form from the (key, values) pairs whose key is posted
FormOf(pairs) ==
    LET present == {p \in pairs : p[2] # NoValues}
    IN  [k \in {p[1] : p \in present} |-> (CHOOSE p \in present : p[1] = k)[2]]

\* the signature the provider computes with a secret for a URL and a form
ProviderSignature(secret, url, form) ==
    twCalculateSignature(url, form, secret, SetToSeq(DOMAIN form))

\* a signature with one bit flipped
FlipBit(sig) == [sig EXCEPT ![1] = IF @ % 2 = 0 THEN @ + 1 ELSE @ - 1]

\* the signature headers a request may present: none, the provider's for the
\* signed URL, that one with a bit flipped, one made with another secret, and
\* the provider's for the URL without the forwarded path
SignatureHeaders(host, url, proxyPath, form) ==
    LET direct == sHttps \o host \o RequestURI(url)
        signed == IF proxyPath # <<>> THEN sHttps \o host \o proxyPath ELSE direct
    IN  {<<>>, ProviderSignature(sTok, signed, form), FlipBit(ProviderSignature(sTok, signed, form)),
         ProviderSignature(sKey, signed, form), ProviderSignature(sTok, direct, form)}

Request(sig, proxyPath, host, url, parseFormErr, form) ==
    [Header |-> (signatureHeader :> sig) @@ (forwardedPathHeader :> proxyPath),
     Host |-> host, URL |-> url, parseFormErr |-> parseFormErr, PostForm |-> form]

Requests(urls, forms) ==
    UNION {{Request(sig, proxyPath, sHost, url, parseFormErr, form) :
                sig \in SignatureHeaders(sHost, url, proxyPath, form)} :
           url \in urls, proxyPath \in {<<>>, sProxyPath}, parseFormErr \in BOOLEAN, form \in forms}

\* the status callbacks: with and without each required field, every status
\* of the mapping and one outside it
StatusForms ==
    {FormOf({<<sMessageSID, sid>>, <<sMessageStatus, st>>}) :
        sid \in {NoValues, <<sSM1>>},
        st  \in {NoValues, <<sX>>} \cup {<<k>> : k \in {sQueued, sFailed, sSent, sDelivered, sUndelivered}}}

\* the identifiers of the messages: the null identifier and those assigned
MsgIDs == {NilMsgID} \cup {NewMsgID(k) : k \in 1..MaxMsgID}

\* the channel's status route, /c/<type>/<uuid>/status, with a query
StatusRoute(channel, q) ==
    [Path     |-> RequestTo(CallbackURL([ID |-> NilMsgID, Channel |-> channel])).URL.Path,
     RawQuery |-> q]

\* the callback URLs: no query, an id that is no integer, and those SendMsg
\* hands to the provider for a message of a channel
StatusURLs(channel) ==
    {StatusRoute(channel, <<>>), StatusRoute(channel, sId \o <<bEq>> \o sX)}
    \cup {RequestTo(CallbackURL([ID |-> id, Channel |-> channel])).URL : id \in MsgIDs}

\* the incoming messages
MoForms ==
    {FormOf({<<sMessageSID, sid>>, <<sAccountSID, <<sAC1>>>>, <<sFrom, from>>, <<sTo, <<sPhone>>>>,
             <<sBody, body>>, <<sNumMedia, media>>,
             <<sMediaUrl \o <<bZero>>, IF media = NoValues THEN NoValues ELSE <<sUrlA>>>>,
             <<sMediaUrl \o <<bZero + 1>>, IF media = <<FormatInt(2)>> THEN <<sUrlB>> ELSE NoValues>>}) :
        sid   \in {NoValues, <<sSM1>>},
        from  \in {NoValues, <<sPhone>>, <<sWhatsAppFrom>>, <<sWhatsAppID>>, <<sX>>},
        body  \in {NoValues, <<sHi>>},
        media \in {NoValues, <<sX>>, <<FormatInt(1)>>, <<FormatInt(2)>>}}

MoURLs == {[Path |-> sReceivePath, RawQuery |-> <<>>]}

\* the lengths of the message texts: none, and for every number of parts up
\* to MaxParts a text that fills its last part and one that does not
TextLengths == {0} \cup {p * maxMsgLength : p \in 1..MaxParts}
                   \cup {p * maxMsgLength - 1200 : p \in 1..MaxParts}

\* the messages to send
Msgs ==
    {[ID |-> id, Text |-> [ch |-> 97, n |-> n], Attachments |-> atts,
      URNPath |-> IF IsScheme(channel, sWhatsApp) THEN sWhatsAppID ELSE sPhone,
      Channel |-> channel] :
        id \in MsgIDs,
        n \in TextLengths,
        atts \in {<<>>, <<sAttachmentA>>, <<sAttachmentA, sAttachmentB>>},
        channel \in Channels}

\* what the provider may answer: whether the exchange ends in an error (a
\* transport error or a status that is not 2xx), whether there is a body,
\* the "code" of the body (0 when it has none) and its "sid" when it has one
Responses ==
    {[err |-> e, hasBody |-> FALSE, code |-> 0, hasSid |-> FALSE, sid |-> <<>>] : e \in BOOLEAN}
    \cup
    {[err |-> e, hasBody |-> TRUE, code |-> c, hasSid |-> sid # NoString,
      sid |-> IF sid = NoString THEN <<>> ELSE sid] :
        e \in BOOLEAN, c \in {0, 1001, errorStopped}, sid \in {NoString, sSM1, sSM2}}

\* the forms and URLs twCalculateSignature is called with directly
SignatureForms ==
    {FormOf({<<sTo, a>>, <<sBody, b>>, <<sMediaUrl, c>>, <<sBody \o sX, d>>}) :
        a \in {NoValues, <<sPhone>>}, b \in {NoValues, <<sHi>>},
        c \in {NoValues, <<sUrlA, sUrlB>>}, d \in {NoValues, <<>>}}

BackendErrors == {NoError, "message not found"}

-----------------------------------------------------------------------------
(* The state machine *)

Init ==
    /\ ignoreDeliveryReports = FALSE
    /\ routes = {}
    /\ pc = "idle"
    /\ call = [name |-> "none"]
    /\ calls = <<>>
    /\ writes = <<>>
    /\ ret = Return(NilStatus, <<>>, NoError, <<>>)
    /\ status = NilStatus
    /\ parts = <<>>
    /\ idx = 0
    /\ http = <<>>

\* handler.Initialize(s): the server and its configuration are taken over and
\* the two routes are added
Initialize ==
    /\ routes = {}
    /\ \E configured \in BOOLEAN : ignoreDeliveryReports' = configured
    /\ routes' = {"receive", "status"}
    /\ UNCHANGED <<pc, call, calls, writes, ret, status, parts, idx, http>>

\* a webhook call ran to its end with this outcome
Handled(name, channel, r, out) ==
    /\ call' = [name |-> name, channel |-> channel, r |-> r]
    /\ calls' = out.calls
    /\ writes' = out.writes
    /\ ret' = Return(NilStatus, out.events, out.err, <<>>)
    /\ pc' = "done"
    /\ status' = NilStatus
    /\ parts' = <<>>
    /\ idx' = 0
    /\ http' = <<>>
    /\ UNCHANGED <<ignoreDeliveryReports, routes>>

\* POST .../receive
ReceiveMessage ==
    /\ "receive" \in routes
    /\ pc = "idle"
    /\ \E channel \in Channels, r \in Requests(MoURLs, MoForms), writeErr \in BackendErrors :
         \E order \in IterationOrders(r.PostForm) :
            Handled("receiveMessage", channel, r, receiveMessage(channel, r, order, writeErr))

\* POST .../status
ReceiveStatus ==
    /\ "status" \in routes
    /\ pc = "idle"
    /\ \E channel \in Channels, writeErr \in BackendErrors :
         \E r \in Requests(StatusURLs(channel), StatusForms) :
         \E order \in IterationOrders(r.PostForm) :
            Handled("receiveStatus", channel, r,
                    receiveStatus(ignoreDeliveryReports, channel, r, order, writeErr))

\* SendMsg returning a send that did not go through as an error
SendMsgReturnsFailureAsError(st, err) ==
    /\ pc' = "done"
    /\ ret' = IF st.Status \in {MsgErrored, MsgFailed}
              THEN Return(NilStatus, <<>>, "message send failed", <<>>)
              ELSE Return(st, <<>>, err, <<>>)

\* SendMsg returns
SendMsgReturns(st, err) ==
    /\ pc' = "done"
    /\ ret' = Return(st, <<>>, err, <<>>)

\* SendMsg(ctx, msg) up to its loop
SendMsg ==
    /\ routes # {}
    /\ pc = "idle"
    /\ \E msg \in Msgs :
         LET begun == SendMsgBegin(msg)
         IN  /\ call' = [name |-> "SendMsg", msg |-> msg]
             /\ status' = begun.status
             /\ parts' = begun.parts
             /\ calls' = IF begun.err = NoError
                         THEN <<BackendCall("NewMsgStatusForID", begun.status)>> ELSE <<>>
             /\ IF begun.err # NoError
                THEN SendMsgReturns(NilStatus, begun.err)
                ELSE pc' = "sending" /\ ret' = Return(NilStatus, <<>>, NoError, <<>>)
    /\ idx' = 0
    /\ http' = <<>>
    /\ writes' = <<>>
    /\ UNCHANGED <<ignoreDeliveryReports, routes>>

\* one pass of SendMsg's loop, for part idx, and the return after the last part
SendPart ==
    /\ pc = "sending"
    /\ LET msg     == call.msg
           channel == msg.Channel
           built   == BuildForm(msg, parts[idx + 1], idx)
           accountSID   == StringConfigForKey(channel, "account_sid", <<>>)
           accountToken == StringConfigForKey(channel, "auth_token", <<>>)
           added   == AddURLPath(StringConfigForKey(channel, "send_url", sendURL), accountSID)
       IN  IF built.panic
           THEN SendMsgReturns(NilStatus, "panic") /\ UNCHANGED <<status, calls, http, idx>>
           ELSE IF ~added.ok
           THEN SendMsgReturns(NilStatus, "invalid send url") /\ UNCHANGED <<status, calls, http, idx>>
           ELSE \E resp \in Responses :
                  LET decided == Classify(status, idx, resp)
                  IN  /\ http' = Append(http, [form |-> built.form, url |-> added.url,
                                               auth |-> <<accountSID, accountToken>>, resp |-> resp])
                      /\ status' = decided.status
                      /\ calls' = IF decided.stopped
                                  THEN Append(calls, BackendCall("StopMsgContact", msg.ID))
                                  ELSE calls
                      /\ IF decided.returns \/ idx + 1 = Len(parts)
                         THEN SendMsgReturns(decided.status, NoError) /\ idx' = idx
                         ELSE pc' = "sending" /\ idx' = idx + 1 /\ UNCHANGED ret
    /\ UNCHANGED <<ignoreDeliveryReports, routes, call, parts, writes>>

\* a direct call of twCalculateSignature(url, form, authToken)
CalculateSignature ==
    /\ pc = "idle"
    /\ \E url \in {sHttps \o sHost \o sReceivePath, sHttps \o sHost \o sStatusPath},
          form \in SignatureForms, authToken \in {sTok, sKey} :
         \E order \in AllOrders(DOMAIN form) :
            /\ call' = [name |-> "twCalculateSignature", url |-> url, form |-> form,
                        authToken |-> authToken, order |-> order]
            /\ ret' = Return(NilStatus, <<>>, NoError, twCalculateSignature(url, form, authToken, order))
    /\ pc' = "done"
    /\ calls' = <<>>
    /\ writes' = <<>>
    /\ status' = NilStatus
    /\ parts' = <<>>
    /\ idx' = 0
    /\ http' = <<>>
    /\ UNCHANGED <<ignoreDeliveryReports, routes>>

\* the call is over: its locals are gone and the handler takes the next call
NextCall ==
    /\ pc = "done"
    /\ pc' = "idle"
    /\ call' = [name |-> "none"]
    /\ calls' = <<>>
    /\ writes' = <<>>
    /\ ret' = Return(NilStatus, <<>>, NoError, <<>>)
    /\ status' = NilStatus
    /\ parts' = <<>>
    /\ idx' = 0
    /\ http' = <<>>
    /\ UNCHANGED <<ignoreDeliveryReports, routes>>

Next ==
    \/ Initialize
    \/ ReceiveMessage
    \/ ReceiveStatus
    \/ SendMsg
    \/ SendPart
    \/ CalculateSignature
    \/ NextCall

Spec == Init /\ [][Next]_vars

-----------------------------------------------------------------------------
(* What the claims speak of *)

IsWebhook == call.name \in {"receiveMessage", "receiveStatus"}
IsSend    == call.name = "SendMsg"

\* the string configured under a key: "" when the key is not set or holds no string
ConfiguredString(channel, key) ==
    IF key \in DOMAIN channel.Config /\ channel.Config[key].kind = "string"
    THEN channel.Config[key].v ELSE <<>>

\* the URL the provider signs: the host and the request URI, or the forwarded
\* path when the request carries one
ExpectedURL(r) ==
    sHttps \o r.Host
    \o (IF r.Header[forwardedPathHeader] # <<>> THEN r.Header[forwardedPathHeader]
        ELSE IF r.URL.RawQuery = <<>> THEN r.URL.Path
        ELSE r.URL.Path \o <<bQuest>> \o r.URL.RawQuery)

\* the signature twCalculateSignature computes for the request and a secret
ExpectedSignature(r, secret) ==
    twCalculateSignature(ExpectedURL(r), r.PostForm, secret, SetToSeq(DOMAIN r.PostForm))

\* the errors of validateSignature
SignatureErrors ==
    {"missing request signature", "form does not parse",
     "invalid or missing auth token in config", "invalid request signature"}

\* the error with which the latest webhook call was refused by validateSignature,
\* NoError when it was not: receiveStatus returns it, receiveMessage writes it
ObservedSignatureError ==
    IF call.name = "receiveStatus"
    THEN IF ret.err \in SignatureErrors THEN ret.err ELSE NoError
    ELSE IF writes # <<>> /\ writes[1].kind = "error" /\ writes[1].details \in SignatureErrors
         THEN writes[1].details ELSE NoError

\* the request's signature cannot be valid
SignatureInvalid(channel, r) ==
    \/ r.Header[signatureHeader] = <<>>
    \/ r.parseFormErr
    \/ ConfiguredString(channel, "auth_token") = <<>>
    \/ r.Header[signatureHeader] # ExpectedSignature(r, ConfiguredString(channel, "auth_token"))

\* how often the latest call invoked a backend operation
Invocations(fn) == Cardinality({k \in 1..Len(calls) : calls[k].fn = fn})

\* the attempt got a 2xx response with a sid
AttemptSucceeded(x) == ~x.resp.err /\ x.resp.hasSid

\* the attempt ended in an error whose body carries the opt-out code
OptedOut(x) == x.resp.err /\ x.resp.hasBody /\ x.resp.code = errorStopped

\* the status the callback's status string stands for
CanonicalStatus(s) ==
    CASE s = sQueued -> MsgSent
      [] s = sFailed -> MsgFailed
      [] s = sSent -> MsgSent
      [] s = sDelivered -> MsgDelivered
      [] s = sUndelivered -> MsgFailed
      [] OTHER -> "none"

\* the URL, then each key in ascending order followed by its values in their order
RECURSIVE SignedString(_, _, _)
SignedString(buffer, keys, form) ==
    IF keys = {} THEN buffer
    ELSE LET least == CHOOSE k \in keys : \A other \in keys \ {k} : StrLess(k, other)
         IN  SignedString(buffer \o least \o Concat(form[least]), keys \ {least}, form)

-----------------------------------------------------------------------------
(* The claims *)

\* C1: whenever validateSignature fails (no signature header, a signature that
\* does not match, no auth token or one that is no string, a form that does
\* not parse), receiveMessage and receiveStatus return without having invoked
\* any backend operation and without any event, whatever the payload.
C1_RejectedBeforeBackend ==
    (IsWebhook /\ SignatureInvalid(call.channel, call.r))
        => (pc = "done" /\ calls = <<>> /\ ret.events = <<>>)

\* C1 witness: a status callback with a valid payload and no signature header
\* was turned away with no backend operation.
C1_Witness ==
    /\ call.name = "receiveStatus"
    /\ call.r.Header[signatureHeader] = <<>>
    /\ FormGet(call.r.PostForm, sMessageSID) # <<>>
    /\ FormGet(call.r.PostForm, sMessageStatus) = sDelivered
    /\ ret.err = "missing request signature"
    /\ calls = <<>>

\* how a send attempt of the latest SendMsg failed for C2: a provider error
\* other than the opt-out code, or a transport-level error
FailedOtherThanOptOut(x) == x.resp.err /\ ~OptedOut(x)

\* C2 as stated: when a provider error other than the opt-out code, or a
\* transport-level error, occurs on any segment, SendMsg returns status
\* Errored, also when earlier segments were accepted.
C2_FailureReturnsErrored ==
    (IsSend /\ pc = "done" /\ \E k \in 1..Len(http) : FailedOtherThanOptOut(http[k]))
        => ret.status.Status = MsgErrored

\* C3: the segments are sent one at a time in index order, and the first
\* failed attempt (an error, or a response without a sid) is the last request
\* of the call: SendMsg has returned and no later segment is requested.
C3_InOrderUntilFirstFailure ==
    IsSend =>
        /\ Len(http) <= Len(parts)
        /\ (pc = "sending" => Len(http) = idx)
        /\ \A k \in 1..Len(http) :
            /\ http[k].form[sBody] = <<parts[k]>>
            /\ ~AttemptSucceeded(http[k]) => (k = Len(http) /\ pc = "done")

\* C3 witness: the first of two segments failed and SendMsg returned after
\* that one request.
C3_Witness ==
    /\ IsSend /\ pc = "done"
    /\ Len(parts) = 2 /\ Len(http) = 1
    /\ ~AttemptSucceeded(http[1])

\* C4 as stated: a response carrying code 21610 means status Failed and
\* exactly one StopMsgContact; no such response means no StopMsgContact.
C4_AnyResponseWithCodeStops ==
    (IsSend /\ pc = "done") =>
        IF \E k \in 1..Len(http) : http[k].resp.hasBody /\ http[k].resp.code = errorStopped
        THEN ret.status.Status = MsgFailed /\ Invocations("StopMsgContact") = 1
        ELSE Invocations("StopMsgContact") = 0

\* C4 amended: if a segment's request ends in an error and the body of its
\* response carries code 21610, SendMsg returns status Failed and invokes
\* StopMsgContact exactly once, whatever the number of segments and whichever
\* segment it was; in every other SendMsg call StopMsgContact is never invoked.
C4_OptOutStopsOnce ==
    IsSend =>
        IF \E k \in 1..Len(http) : OptedOut(http[k])
        THEN /\ pc = "done"
             /\ ret.status.Status = MsgFailed
             /\ Invocations("StopMsgContact") = 1
        ELSE Invocations("StopMsgContact") = 0

\* C4 witness: the second of two segments was answered with the opt-out code
\* after the first was accepted; the contact was stopped once.
C4_Witness ==
    /\ IsSend /\ pc = "done"
    /\ Len(http) = 2
    /\ AttemptSucceeded(http[1]) /\ OptedOut(http[2])
    /\ ret.status.Status = MsgFailed
    /\ Invocations("StopMsgContact") = 1

\* C5: when every segment's request succeeds with a sid, SendMsg makes one
\* request per segment and returns Wired with the first segment's sid as
\* external id; later sids never replace it, and while the first segment has
\* not succeeded no external id is recorded.
C5_FirstSidIsExternalID ==
    IsSend =>
        /\ (pc = "done" /\ http # <<>> /\ \A k \in 1..Len(http) : AttemptSucceeded(http[k]))
            => /\ Len(http) = Len(parts)
               /\ ret.status.Status = MsgWired
               /\ ret.status.ExternalID = http[1].resp.sid
        /\ (http # <<>> /\ AttemptSucceeded(http[1]))
            => status.ExternalID = http[1].resp.sid
        /\ (http = <<>> \/ ~AttemptSucceeded(http[1]))
            => (status.ExternalID = <<>> /\ ret.status.ExternalID = <<>>)

\* C5 witness: two segments were accepted with different sids and the status
\* returned carries the first.
C5_Witness ==
    /\ IsSend /\ pc = "done"
    /\ Len(http) = 2
    /\ AttemptSucceeded(http[1]) /\ AttemptSucceeded(http[2])
    /\ http[1].resp.sid # http[2].resp.sid
    /\ ret.status.Status = MsgWired
    /\ ret.status.ExternalID = http[1].resp.sid

\* C6: only the first segment's request carries a media URL, and only when
\* the message has an attachment (the URL of its first attachment); the
\* requests of the later segments carry none.
C6_MediaOnFirstSegmentOnly ==
    IsSend =>
        \A k \in 1..Len(http) :
            /\ (sMediaUrl \in DOMAIN http[k].form) <=> (k = 1 /\ call.msg.Attachments # <<>>)
            /\ (sMediaUrl \in DOMAIN http[k].form)
                => call.msg.Attachments[1] =
                       SplitAttachment(call.msg.Attachments[1]).type \o <<bColon>>
                       \o http[k].form[sMediaUrl][1]

\* C6 witness: a message with an attachment went out in two segments.
C6_Witness ==
    /\ IsSend
    /\ Len(http) = 2
    /\ call.msg.Attachments # <<>>
    /\ sMediaUrl \in DOMAIN http[1].form
    /\ sMediaUrl \notin DOMAIN http[2].form

\* C7: without an account SID or without an auth token SendMsg returns an
\* error and no status, having executed no HTTP request, created no status
\* and stopped no contact.
C7_MissingCredentialFailsFirst ==
    (IsSend /\ (\/ ConfiguredString(call.msg.Channel, "account_sid") = <<>>
                \/ ConfiguredString(call.msg.Channel, "auth_token") = <<>>))
        => /\ pc = "done"
           /\ ret.err \notin {NoError, "panic"}
           /\ ret.status = NilStatus
           /\ status = NilStatus
           /\ http = <<>>
           /\ calls = <<>>

\* C7 witness: a send on a channel with an auth token and no account SID
\* returned the error.
C7_Witness ==
    /\ IsSend /\ pc = "done"
    /\ ConfiguredString(call.msg.Channel, "account_sid") = <<>>
    /\ ConfiguredString(call.msg.Channel, "auth_token") # <<>>
    /\ ret.err = "missing account sid for twilio channel"

\* C8 as stated: with a non-empty auth token and a signature header present,
\* validateSignature succeeds if and only if the header equals the signature
\* twCalculateSignature computes for the request's URL and posted form.
C8_ValidIffSignatureMatches ==
    (/\ IsWebhook
     /\ ConfiguredString(call.channel, "auth_token") # <<>>
     /\ call.r.Header[signatureHeader] # <<>>)
        => ((ObservedSignatureError = NoError)
            <=> (call.r.Header[signatureHeader]
                    = ExpectedSignature(call.r, ConfiguredString(call.channel, "auth_token"))))

\* C8 amended: with a non-empty auth token, a signature header present and a
\* form that parses, validateSignature succeeds if and only if the header
\* equals the signature twCalculateSignature computes for the request's URL
\* (host and request URI, or the forwarded path) and posted form; any other
\* header fails with the invalid-signature error.
C8_ValidIffSignatureMatchesParsedForm ==
    (/\ IsWebhook
     /\ ConfiguredString(call.channel, "auth_token") # <<>>
     /\ call.r.Header[signatureHeader] # <<>>
     /\ ~call.r.parseFormErr)
        => IF call.r.Header[signatureHeader]
                = ExpectedSignature(call.r, ConfiguredString(call.channel, "auth_token"))
           THEN ObservedSignatureError = NoError
           ELSE ObservedSignatureError = "invalid request signature"

\* C8 witness: a request behind a proxy, signed for the forwarded path, was
\* accepted.
C8_Witness ==
    /\ IsWebhook
    /\ ~call.r.parseFormErr
    /\ call.r.Header[forwardedPathHeader] # <<>>
    /\ call.r.Header[signatureHeader] # <<>>
    /\ call.r.Header[signatureHeader]
            = ExpectedSignature(call.r, ConfiguredString(call.channel, "auth_token"))
    /\ ConfiguredString(call.channel, "auth_token") # <<>>
    /\ ObservedSignatureError = NoError

\* C9: the signature does not depend on the order in which the keys of the
\* form come: whatever the order, it is the encoded digest of the URL followed
\* by each key in ascending order and that key's values in their own order.
C9_SignatureIgnoresInsertionOrder ==
    call.name = "twCalculateSignature" =>
        /\ \A order \in AllOrders(DOMAIN call.form) :
                twCalculateSignature(call.url, call.form, call.authToken, order) = ret.sig
        /\ ret.sig = Base64StdEncode(HmacSha1(call.authToken,
                                              SignedString(call.url, DOMAIN call.form, call.form)))

\* C9 witness: a form of three keys, one of them with two values, was signed
\* with its keys coming in an order that is not ascending.
C9_Witness ==
    /\ call.name = "twCalculateSignature"
    /\ Cardinality(DOMAIN call.form) >= 3
    /\ \E k \in DOMAIN call.form : Len(call.form[k]) = 2
    /\ call.order # StringSliceSort(call.order)
    /\ ret.sig # <<>>

\* C10: an authenticated status callback with both required fields has its
\* status string mapped queued->Sent, failed->Failed, sent->Sent,
\* delivered->Delivered, undelivered->Failed; any other status string is
\* answered with the unknown-status error, no status being created or written.
C10_StatusMapping ==
    (/\ call.name = "receiveStatus"
     /\ ObservedSignatureError = NoError
     /\ FormGet(call.r.PostForm, sMessageSID) # <<>>
     /\ FormGet(call.r.PostForm, sMessageStatus) # <<>>)
        => LET s == FormGet(call.r.PostForm, sMessageStatus)
           IN  IF CanonicalStatus(s) # "none"
               THEN /\ \A k \in 1..Len(calls) : calls[k].arg.Status = CanonicalStatus(s)
                    /\ ~(ignoreDeliveryReports /\ CanonicalStatus(s) # MsgFailed)
                        => (Len(calls) = 2 /\ calls[2].fn = "WriteMsgStatus")
               ELSE /\ calls = <<>>
                    /\ ret.events = <<>>
                    /\ writes = <<WriteAndLogRequestError("unknown status")>>

\* C10 witness: a "queued" callback was written to the backend as Sent.
C10_Witness ==
    /\ call.name = "receiveStatus"
    /\ FormGet(call.r.PostForm, sMessageStatus) = sQueued
    /\ Len(calls) = 2
    /\ calls[2].fn = "WriteMsgStatus"
    /\ calls[2].arg.Status = MsgSent

\* the latest call is a status callback that passed validateSignature and
\* carries both required fields
AuthenticatedStatusCallback ==
    /\ call.name = "receiveStatus"
    /\ ObservedSignatureError = NoError
    /\ FormGet(call.r.PostForm, sMessageSID) # <<>>
    /\ FormGet(call.r.PostForm, sMessageStatus) # <<>>

\* the canonical status of the latest status callback
CallbackStatus == CanonicalStatus(FormGet(call.r.PostForm, sMessageStatus))

\* C11: with delivery reports ignored, an authenticated status callback whose
\* status is one of the mapping is written to the backend exactly when it maps
\* to Failed; one that maps to Sent or Delivered creates and writes no status.
C11_OnlyFailuresPassWhenIgnoring ==
    (AuthenticatedStatusCallback /\ ignoreDeliveryReports /\ CallbackStatus # "none")
        => IF CallbackStatus = MsgFailed
           THEN /\ Invocations("WriteMsgStatus") = 1
                /\ calls[Len(calls)].fn = "WriteMsgStatus"
                /\ calls[Len(calls)].arg.Status = MsgFailed
           ELSE /\ calls = <<>>
                /\ ret.events = <<>>

\* C11 witness: with delivery reports ignored, an "undelivered" callback was
\* written to the backend as Failed.
C11_Witness ==
    /\ AuthenticatedStatusCallback /\ ignoreDeliveryReports
    /\ FormGet(call.r.PostForm, sMessageStatus) = sUndelivered
    /\ Invocations("WriteMsgStatus") = 1
    /\ calls[Len(calls)].arg.Status = MsgFailed

\* the latest call is a status callback that was accepted: authenticated, with
\* a status of the mapping, and not suppressed
AcceptedStatusCallback ==
    /\ AuthenticatedStatusCallback
    /\ CallbackStatus # "none"
    /\ ~(ignoreDeliveryReports /\ CallbackStatus # MsgFailed)

\* the id parameter of the callback URL's query, read as an integer: [ok, n]
CallbackID(r) ==
    LET idString == QueryGet(r.URL, sId)
    IN  IF idString = <<>> THEN [ok |-> FALSE, n |-> 0] ELSE ParseInt(idString)

\* C12: an accepted status callback builds exactly one status and writes that
\* one: for the message identifier of the URL's id when it parses as an
\* integer, the lookup by external identifier not being used; for the
\* provider's MessageSID as external identifier when the id is absent or does
\* not parse.
C12_TargetByIdElseExternalId ==
    AcceptedStatusCallback =>
        /\ Len(calls) = 2
        /\ calls[2] = BackendCall("WriteMsgStatus", calls[1].arg)
        /\ calls[1].arg.Status = CallbackStatus
        /\ IF CallbackID(call.r).ok
           THEN /\ calls[1].fn = "NewMsgStatusForID"
                /\ calls[1].arg.ID = NewMsgID(CallbackID(call.r).n)
                /\ calls[1].arg.ExternalID = <<>>
           ELSE /\ calls[1].fn = "NewMsgStatusForExternalID"
                /\ calls[1].arg.ExternalID = FormGet(call.r.PostForm, sMessageSID)
                /\ calls[1].arg.ID = NilMsgID

\* C12 witness: a callback whose id is no integer was written for the
\* provider's MessageSID.
C12_Witness ==
    /\ AcceptedStatusCallback
    /\ QueryGet(call.r.URL, sId) = sX
    /\ Len(calls) = 2
    /\ calls[1].fn = "NewMsgStatusForExternalID"
    /\ calls[1].arg.ExternalID = sSM1
    /\ calls[2].fn = "WriteMsgStatus"

\* the latest call is an incoming message that passed validateSignature
AuthenticatedMessage ==
    /\ call.name = "receiveMessage"
    /\ ~SignatureInvalid(call.channel, call.r)

\* the form of the incoming message has its required fields, and a NumMedia
\* that is an integer when it has one
MessageFormValid(r) ==
    /\ \A key \in {sMessageSID, sAccountSID, sFrom, sTo} : FormGet(r.PostForm, key) # <<>>
    /\ (FormGet(r.PostForm, sNumMedia) = <<>> \/ ParseInt(FormGet(r.PostForm, sNumMedia)).ok)

\* an origin address of the form whatsapp:+<digits>
IsWhatsAppAddress(from) ==
    LET prefix == sWhatsApp \o <<bColon, bPlus>>
    IN  /\ Len(from) > Len(prefix)
        /\ SubSeq(from, 1, Len(prefix)) = prefix
        /\ AllDigits(SubSeq(from, Len(prefix) + 1, Len(from)))

\* the digits of an origin address of the form whatsapp:+<digits>
WhatsAppDigits(from) == SubSeq(from, Len(sWhatsApp) + 3, Len(from))

\* C13 as stated: on a WhatsApp channel an origin address whatsapp:+<digits>
\* becomes the URN of the digits, and every other origin address is answered
\* with the URN validation error, no message being handed to the backend.
C13_WhatsAppOriginNormalisedOrRejected ==
    (/\ AuthenticatedMessage
     /\ IsScheme(call.channel, sWhatsApp)
     /\ MessageFormValid(call.r))
        => LET from == FormGet(call.r.PostForm, sFrom)
           IN  IF IsWhatsAppAddress(from)
               THEN /\ calls # <<>>
                    /\ calls[1].fn = "NewIncomingMsg"
                    /\ calls[1].arg.URN = [scheme |-> sWhatsApp, path |-> WhatsAppDigits(from)]
               ELSE /\ calls = <<>>
                    /\ ret.err = NoError
                    /\ writes = <<WriteAndLogRequestError("invalid urn")>>

\* the origin address of the form normalises to a URN of the channel's scheme
OriginNormalises(channel, r) ==
    LET from == FormGet(r.PostForm, sFrom)
    IN  IF IsScheme(channel, sWhatsApp)
        THEN /\ Len(Split(from, bColon)) >= 2
             /\ NewWhatsAppURN(TrimLeft(Split(from, bColon)[2], bPlus)).ok
        ELSE NewTelURNForCountry(from, FormGet(r.PostForm, sFromCountry)).ok

\* C14: receiveMessage reaches the backend only when the signature is valid,
\* the form decodes with its required fields and the origin address normalises
\* to a URN; then exactly one message is created and handed to the backend.
\* Otherwise there is no backend call, and the request ends at the first of the
\* three steps that fails: a signature error is answered before the form is
\* looked at, a form error before the origin address is.
C14_BackendOnlyAfterAllChecks ==
    call.name = "receiveMessage" =>
        LET sigOK  == ~SignatureInvalid(call.channel, call.r)
            formOK == MessageFormValid(call.r)
            urnOK  == OriginNormalises(call.channel, call.r)
        IN  /\ IF sigOK /\ formOK /\ urnOK
               THEN /\ Len(calls) = 2
                    /\ calls[1].fn = "NewIncomingMsg"
                    /\ calls[2].fn = "WriteMsg"
               ELSE /\ calls = <<>>
                    /\ ret.events = <<>>
            /\ ~sigOK => /\ Len(writes) = 1
                         /\ writes[1].kind = "error"
                         /\ writes[1].details \in SignatureErrors
            /\ (sigOK /\ ~formOK) => writes = <<WriteAndLogRequestError("invalid form")>>
            /\ (sigOK /\ formOK /\ ~urnOK) =>
                    \A k \in 1..Len(writes) : writes[k] = WriteAndLogRequestError("invalid urn")

\* C14 witness: a signed message with all its fields and a telephone origin
\* was created and handed to the backend, once.
C14_Witness ==
    /\ AuthenticatedMessage
    /\ MessageFormValid(call.r)
    /\ IsScheme(call.channel, sTel)
    /\ FormGet(call.r.PostForm, sFrom) = sPhone
    /\ Len(calls) = 2
    /\ calls[1].fn = "NewIncomingMsg"
    /\ calls[2].fn = "WriteMsg"
    /\ Len(ret.events) = 1

\* C15: a SendMsg call that executed at least one HTTP request returns a
\* status, the one it built, and a nil error: what went wrong with the provider
\* or the transport is told by the status alone.
C15_FailuresReturnedInStatus ==
    (IsSend /\ pc = "done" /\ Len(http) >= 1)
        => /\ ret.err = NoError
           /\ ret.status # NilStatus
           /\ ret.status = status
           /\ ret.status.Status \in {MsgErrored, MsgFailed, MsgWired}

\* C15 witness: the only request of a call ended in a transport error, and
\* SendMsg returned the status Errored and no error.
C15_Witness ==
    /\ IsSend /\ pc = "done"
    /\ Len(http) = 1
    /\ http[1].resp.err /\ ~http[1].resp.hasBody
    /\ ret.status.Status = MsgErrored
    /\ ret.err = NoError

\* the channel of the latest SendMsg has its credentials and a send URL that parses
CanSend(channel) ==
    /\ ConfiguredString(channel, "account_sid") # <<>>
    /\ ConfiguredString(channel, "auth_token") # <<>>
    /\ AddURLPath(StringConfigForKey(channel, "send_url", sendURL),
                  ConfiguredString(channel, "account_sid")).ok

\* the request carries the one routing identity of the channel, and on a
\* WhatsApp channel the prefixed destination and sender
RoutedFor(msg, form) ==
    LET channel    == msg.Channel
        serviceSID == ConfiguredString(channel, "messaging_service_sid")
        isWA       == IsScheme(channel, sWhatsApp)
    IN  /\ IF serviceSID # <<>>
           THEN /\ sFrom \notin DOMAIN form
                /\ sMessagingServiceSid \in DOMAIN form
                /\ form[sMessagingServiceSid] = <<serviceSID>>
           ELSE /\ sMessagingServiceSid \notin DOMAIN form
                /\ sFrom \in DOMAIN form
                /\ form[sFrom] = IF isWA THEN <<sWhatsApp \o <<bColon>> \o channel.Address>>
                                 ELSE <<channel.Address>>
        /\ form[sTo] = IF isWA THEN <<sWhatsApp \o <<bColon, bPlus>> \o msg.URNPath>>
                       ELSE <<msg.URNPath>>

\* C16 as stated: for every scheme and routing configuration SendMsg builds
\* and executes the request of each segment, with exactly one routing identity
\* (the messaging-service id when configured, else the channel address) and on
\* a WhatsApp channel the prefixed destination and sender.
C16_OneRoutingIdentityPerRequest ==
    (IsSend /\ pc = "done" /\ CanSend(call.msg.Channel))
        => /\ Len(http) >= 1
           /\ \A k \in 1..Len(http) : RoutedFor(call.msg, http[k].form)

\* C18: the status SendMsg holds has one log for each HTTP request executed so
\* far, in the order of the attempts, also at the return after a failed
\* attempt: the log of an attempt that ended in an error carries an error, the
\* log of an accepted attempt carries none.
C18_OneLogPerAttempt ==
    (IsSend /\ status # NilStatus)
        => /\ Len(status.Logs) = Len(http)
           /\ (pc = "done" /\ ret.status # NilStatus) => ret.status.Logs = status.Logs
           /\ \A k \in 1..Len(http) :
                /\ http[k].resp.err => status.Logs[k].Error # ""
                /\ AttemptSucceeded(http[k]) => status.Logs[k].Error = ""

\* C18 witness: the second of two attempts failed and the returned status
\* carries two logs, the second with the error.
C18_Witness ==
    /\ IsSend /\ pc = "done"
    /\ Len(http) = 2
    /\ http[2].resp.err
    /\ Len(ret.status.Logs) = 2
    /\ ret.status.Logs[1].Error = ""
    /\ ret.status.Logs[2].Error # ""

\* the request the provider makes for the status callback of a message with
\* this identifier on the channel of the latest call
CallbackRequestFor(id) == RequestTo(CallbackURL([ID |-> id, Channel |-> call.channel]))

\* C17 as stated: a status callback delivered to the URL SendMsg generated for
\* a message is resolved by receiveStatus to a status for that message's
\* identifier, the null identifier included.
C17_CallbackIdRoundTrips ==
    AcceptedStatusCallback =>
        \A id \in MsgIDs :
            (call.r.Host = CallbackRequestFor(id).Host /\ call.r.URL = CallbackRequestFor(id).URL)
                => (calls # <<>> /\ calls[1].arg.ID = id)

\* the latest call is an authenticated status callback that receiveStatus
\* ignores: a required field is missing, or the report is no failure and
\* delivery reports are ignored
IgnoredStatusCallback ==
    /\ call.name = "receiveStatus"
    /\ ObservedSignatureError = NoError
    /\ \/ FormGet(call.r.PostForm, sMessageSID) = <<>>
       \/ FormGet(call.r.PostForm, sMessageStatus) = <<>>
       \/ (ignoreDeliveryReports /\ CallbackStatus \in {MsgSent, MsgDelivered})

\* C19: an authenticated status callback that is ignored is answered with
\* exactly one response, the 200 TwiML acknowledgement of WriteRequestIgnored;
\* no event and no error is returned and the backend is not called.
C19_IgnoredCallbackAcknowledgedOnce ==
    IgnoredStatusCallback =>
        /\ Len(writes) = 1
        /\ writes[1].code = 200
        /\ writes[1].kind = "ignored"
        /\ ret.events = <<>>
        /\ ret.err = NoError
        /\ calls = <<>>

\* C19 witness: an authenticated callback without MessageStatus was
\* acknowledged as ignored.
C19_Witness ==
    /\ call.name = "receiveStatus"
    /\ ObservedSignatureError = NoError
    /\ FormGet(call.r.PostForm, sMessageSID) = sSM1
    /\ FormGet(call.r.PostForm, sMessageStatus) = <<>>
    /\ writes = <<WriteRequestIgnored("no msg status, ignoring")>>
    /\ calls = <<>>

\* the NumMedia the form declares, 0 when it declares none
DeclaredMedia(r) ==
    IF FormGet(r.PostForm, sNumMedia) = <<>> THEN 0 ELSE ParseInt(FormGet(r.PostForm, sNumMedia)).n

\* C20: an accepted incoming message whose form declares NumMedia = n >= 0 is
\* handed to the backend with exactly n attachments, the values of MediaUrl0
\* to MediaUrl(n-1) in that order, and with the MessageSID as external
\* identifier.
C20_AttachmentsAsDeclared ==
    (/\ AuthenticatedMessage
     /\ MessageFormValid(call.r)
     /\ OriginNormalises(call.channel, call.r)
     /\ DeclaredMedia(call.r) >= 0)
        => /\ calls # <<>>
           /\ calls[Len(calls)].fn = "WriteMsg"
           /\ calls[Len(calls)].arg.Attachments
                = [k \in 1..DeclaredMedia(call.r) |->
                        FormGet(call.r.PostForm, sMediaUrl \o FormatInt(k - 1))]
           /\ calls[Len(calls)].arg.ExternalID = FormGet(call.r.PostForm, sMessageSID)

\* C20 witness: a message declaring two media was handed to the backend with
\* MediaUrl0 and MediaUrl1 attached in that order.
C20_Witness ==
    /\ AuthenticatedMessage
    /\ DeclaredMedia(call.r) = 2
    /\ calls # <<>>
    /\ calls[Len(calls)].fn = "WriteMsg"
    /\ calls[Len(calls)].arg.Attachments = <<sUrlA, sUrlB>>
    /\ calls[Len(calls)].arg.ExternalID = sSM1

====
